---- MODULE Spec2Model ----
(***************************************************************************)
(* Model of src/main.py: the batch driver execute_cleanup and the per-file *)
(* rewrite process_ass_file.                                               *)
(*                                                                         *)
(* A line is a sequence of text fragments, the last of which may be a line *)
(* terminator; the fragments are chosen so that no searched substring      *)
(* straddles two fragments, hence `s in line` is decided fragment by       *)
(* fragment.  A file on disk is the sequence of its lines as stored, each  *)
(* with its own terminator; only the last line may lack one.  Both files   *)
(* are opened in text mode with the default newline handling: reading      *)
(* turns every terminator into "\n", writing turns "\n" into os.linesep.   *)
(***************************************************************************)
EXTENDS Integers, Sequences, FiniteSets, TLC

(* ------------------------------ bounds --------------------------------- *)
MaxLen == 4
MaxFiles == 3
MaxBatchLen == 1
MaxEolLen == 4

(* ------------------------------ lines ---------------------------------- *)
WS == "  "
LF == "\n"
CRLF == "\r\n"
CR == "\r"

L_image == <<"image", LF>>
L_close == <<WS, "}", LF>>
L_name_spec == <<WS, "name ", "_specular_file", LF>>
L_spec == <<" specular ", "_specular_file.r", LF>>
L_name_keep == <<WS, "name ", "x", LF>>
L_image_name_spec == <<WS, "image", "name ", "_specular_file", LF>>
L_close_name_spec == <<"}", "name ", "_specular_file", LF>>
L_name_spec_r == <<"name ", " specular ", "_specular_file.r", LF>>
L_image_spec == <<"image", " specular ", "_specular_file.r", LF>>
L_close_spec == <<"}", " specular ", "_specular_file.r", LF>>
L_name_keep_crlf == <<WS, "name ", "x", CRLF>>
L_close_crlf == <<WS, "}", CRLF>>
L_name_keep_bare == <<WS, "name ", "x">>

Lines ==
  { L_image, L_close, L_name_spec, L_spec, L_name_keep, L_image_name_spec,
    L_close_name_spec, L_name_spec_r, L_image_spec, L_close_spec }

BatchLines == { L_image, L_name_keep }

EolLines ==
  { L_image, L_close, L_name_spec, L_spec, L_name_keep, L_close_spec,
    L_name_keep_crlf, L_close_crlf, L_name_keep_bare }

StaleTmp == <<L_name_keep>>

Terminators == { LF, CRLF, CR }

Terminated(line) == line # <<>> /\ line[Len(line)] \in Terminators

\* the files of up to n lines from S in which only the last line may lack
\* its terminator
FilesUpTo(S, n) ==
  { f \in UNION { [1..k -> S] : k \in 0..n } :
      \A k \in 1..(Len(f) - 1) : Terminated(f[k]) }

(* ------------------------------ text I/O ------------------------------- *)
\* variant: the file is read with newline='' (no translation)
DecodeUntranslated(raw) == raw

\* a stored line as `for line in fin` yields it: "\r\n" and "\r" become "\n"
Decode(raw) ==
  IF Terminated(raw) THEN [raw EXCEPT ![Len(raw)] = LF] ELSE raw

\* a line as fout.write stores it: "\n" becomes sep (os.linesep)
Encode(line, sep) ==
  [k \in 1..Len(line) |-> IF line[k] = LF THEN sep ELSE line[k]]

(* --------------------------- string tests ------------------------------ *)
\* text of fragment f contains the substring s
FragmentHas(f, s) == f = s \/ (f = "_specular_file.r" /\ s = "_specular_file")

\* `s in line`
Contains(line, s) == \E k \in 1..Len(line) : FragmentHas(line[k], s)

Whitespace == { WS } \cup Terminators

RECURSIVE LStrip(_)
\* the leading part of line.strip(): leading whitespace fragments removed
LStrip(line) ==
  IF line = <<>> THEN <<>>
  ELSE IF Head(line) \in Whitespace THEN LStrip(Tail(line)) ELSE line

\* line.strip().startswith(s)
StripStartsWith(line, s) == LET t == LStrip(line) IN t # <<>> /\ t[1] = s

IsSpecularLineFirst(line) ==
  line # <<>> /\ line[1] = " specular " /\ Contains(line, "_specular_file.r")

\* " specular " in line and "_specular_file.r" in line
IsSpecularLine(line) ==
  Contains(line, " specular ") /\ Contains(line, "_specular_file.r")

StartsImage(line) == StripStartsWith(line, "image")

EndsBlock(line) == StripStartsWith(line, "}")

HasSpecularNameTypo(line) ==
  Contains(line, "name ") /\ Contains(line, "_specular_file.r")

\* "name " in line and "_specular_file" in line
HasSpecularName(line) ==
  Contains(line, "name ") /\ Contains(line, "_specular_file")

(* ------------------------ one loop iteration --------------------------- *)
\* The loop state is (inside, block, skip); block holds the positions, in
\* the file being read, of the lines captured in lines_in_block.  The
\* result's write field lists the positions of the lines handed to
\* fout.write by this iteration, in order.
LoopState(inside, block, skip, write) ==
  [inside |-> inside, block |-> block, skip |-> skip, write |-> write]

\* variant: the closing line is tested before it is captured
ProcessLineCloseNotCaptured(inside, block, skip, pos, line) ==
  IF IsSpecularLine(line) THEN LoopState(inside, block, skip, <<>>)
  ELSE IF ~inside THEN
    IF StartsImage(line) THEN LoopState(TRUE, <<pos>>, FALSE, <<>>)
    ELSE LoopState(FALSE, block, skip, <<pos>>)
  ELSE
    LET skip2 == skip \/ HasSpecularName(line) IN
    IF EndsBlock(line)
    THEN LoopState(FALSE, <<>>, FALSE, IF ~skip2 THEN block ELSE <<>>)
    ELSE LoopState(TRUE, Append(block, pos), skip2, <<>>)

\* variant: rule 1 applied when a line is written instead of when it is read
ProcessLineFilterOnWrite(inside, block, skip, pos, line) ==
  LET keep == IF IsSpecularLine(line) THEN <<>> ELSE <<pos>> IN
  IF ~inside THEN
    IF StartsImage(line) THEN LoopState(TRUE, keep, FALSE, <<>>)
    ELSE LoopState(FALSE, block, skip, keep)
  ELSE
    LET block2 == block \o keep
        skip2 == skip \/ HasSpecularName(line) IN
    IF EndsBlock(line)
    THEN LoopState(FALSE, <<>>, FALSE, IF ~skip2 THEN block2 ELSE <<>>)
    ELSE LoopState(TRUE, block2, skip2, <<>>)

\* variant: the pass-through write is missing
ProcessLineNoPassThrough(inside, block, skip, pos, line) ==
  IF IsSpecularLine(line) THEN LoopState(inside, block, skip, <<>>)
  ELSE IF ~inside THEN
    IF StartsImage(line) THEN LoopState(TRUE, <<pos>>, FALSE, <<>>)
    ELSE LoopState(FALSE, block, skip, <<>>)
  ELSE
    LET block2 == Append(block, pos)
        skip2 == skip \/ HasSpecularName(line) IN
    IF EndsBlock(line)
    THEN LoopState(FALSE, <<>>, FALSE, IF ~skip2 THEN block2 ELSE <<>>)
    ELSE LoopState(TRUE, block2, skip2, <<>>)

\* variant: the opening line is tested for the name marker too
ProcessLineOpeningTested(inside, block, skip, pos, line) ==
  IF IsSpecularLine(line) THEN LoopState(inside, block, skip, <<>>)
  ELSE IF ~inside THEN
    IF StartsImage(line)
    THEN LoopState(TRUE, <<pos>>, HasSpecularName(line), <<>>)
    ELSE LoopState(FALSE, block, skip, <<pos>>)
  ELSE
    LET block2 == Append(block, pos)
        skip2 == skip \/ HasSpecularName(line) IN
    IF EndsBlock(line)
    THEN LoopState(FALSE, <<>>, FALSE, IF ~skip2 THEN block2 ELSE <<>>)
    ELSE LoopState(TRUE, block2, skip2, <<>>)

\* body of `for line in fin` for the line at position pos
ProcessLine(inside, block, skip, pos, line) ==
  IF IsSpecularLine(line) THEN LoopState(inside, block, skip, <<>>)
  ELSE IF ~inside THEN
    IF StartsImage(line) THEN LoopState(TRUE, <<pos>>, FALSE, <<>>)
    ELSE LoopState(FALSE, block, skip, <<pos>>)
  ELSE
    LET block2 == Append(block, pos)
        skip2 == skip \/ HasSpecularName(line) IN
    IF EndsBlock(line)
    THEN LoopState(FALSE, <<>>, FALSE, IF ~skip2 THEN block2 ELSE <<>>)
    ELSE LoopState(TRUE, block2, skip2, <<>>)

\* what fout.write stores for the lines read at the given positions
WrittenLines(lines, ps, sep) ==
  [k \in 1..Len(ps) |-> Encode(Decode(lines[ps[k]]), sep)]

RECURSIVE Run(_, _)
\* loop state after the first n lines; write accumulates everything written
Run(lines, n) ==
  IF n = 0 THEN LoopState(FALSE, <<>>, FALSE, <<>>)
  ELSE LET s == Run(lines, n - 1)
           r == ProcessLine(s.inside, s.block, s.skip, n, Decode(lines[n]))
       IN LoopState(r.inside, r.block, r.skip, s.write \o r.write)

\* content of the temporary file after the whole loop ran over lines
Filter(lines, sep) == WrittenLines(lines, Run(lines, Len(lines)).write, sep)

(* ------------------------------ state ---------------------------------- *)
VARIABLES
  os_linesep,           \* the platform's line separator
  folder_ok,            \* os.path.isdir(folder_path)
  disk,                 \* path -> the .ass file at that path
  tmp,                  \* path -> the sibling file path + ".tmp"
  orig0, tmp0,          \* disk and tmp as they were before the button press
  all_ass_files, total_files,
  info, warning, progress,
  epc,                  \* position in execute_cleanup
  idx,                  \* loop index i of execute_cleanup
  ppc,                  \* position in process_ass_file
  fin_pos,              \* position of the next line `for line in fin` yields
  inside_image_block, lines_in_block, skip_this_block,
  emitted,              \* path -> positions of the lines written to its tmp
  removed, rewritten,   \* paths on which os.remove / os.rename succeeded
  raised                \* the exception that left execute_cleanup

vars ==
  << os_linesep, folder_ok, disk, tmp, orig0, tmp0, all_ass_files, total_files, info,
     warning, progress, epc, idx, ppc, fin_pos, inside_image_block,
     lines_in_block, skip_this_block, emitted, removed, rewritten, raised >>

constVars == << os_linesep, folder_ok, orig0, tmp0 >>
listVars == << all_ass_files, total_files >>
uiVars == << info, warning, progress >>
loopVars == << fin_pos, inside_image_block, lines_in_block, skip_this_block >>
callVars == << epc, idx, raised >>
logVars == << removed, rewritten >>

File(lines) == [present |-> TRUE, lines |-> lines]
NoFile == [present |-> FALSE, lines |-> <<>>]

\* a folder holding n .ass files with contents from cs, temp siblings from ts
InitWith(seps, ok, n, cs, ts) ==
  /\ os_linesep \in seps
  /\ folder_ok = ok
  /\ disk \in [1..n -> { File(c) : c \in cs }]
  /\ tmp \in [1..n -> ts]
  /\ orig0 = disk
  /\ tmp0 = tmp
  /\ all_ass_files = <<>>
  /\ total_files = 0
  /\ info = "No folder selected yet."
  /\ warning = ""
  /\ progress = 0
  /\ epc = "idle"
  /\ idx = 0
  /\ ppc = "idle"
  /\ fin_pos = 0
  /\ inside_image_block = FALSE
  /\ lines_in_block = <<>>
  /\ skip_this_block = FALSE
  /\ emitted = [p \in 1..n |-> <<>>]
  /\ removed = {}
  /\ rewritten = {}
  /\ raised = "none"

\* one "\n"-terminated file of up to MaxLen lines in a fresh folder on a
\* platform whose separator is "\n", or no usable folder
Init ==
  \/ InitWith({LF}, FALSE, 0, {<<>>}, {NoFile})
  \/ \E n \in 0..1 :
       InitWith({LF}, TRUE, n, FilesUpTo(Lines, MaxLen), {NoFile})

\* up to MaxFiles short files, each possibly with a stale temp sibling
InitBatch ==
  \/ InitWith({LF, CRLF}, FALSE, 0, {<<>>}, {NoFile})
  \/ \E n \in 0..MaxFiles :
       InitWith({LF, CRLF}, TRUE, n, FilesUpTo(BatchLines, MaxBatchLen),
                {NoFile, File(StaleTmp)})

\* one file of up to MaxEolLen lines with mixed terminators, on either kind
\* of platform
InitEol ==
  \/ InitWith({LF, CRLF}, FALSE, 0, {<<>>}, {NoFile})
  \/ \E n \in 0..1 :
       InitWith({LF, CRLF}, TRUE, n, FilesUpTo(EolLines, MaxEolLen), {NoFile})

(* ------------------------- execute_cleanup ----------------------------- *)
\* get_ass_files_in_directory: the paths in traversal order
GetAssFilesInDirectory == [k \in DOMAIN disk |-> k]

CurFile == all_ass_files[idx]

ExecuteCleanup ==
  /\ epc = "idle"
  /\ IF ~folder_ok
     THEN /\ warning' = "Please select a valid folder."
          /\ epc' = "returned"
          /\ UNCHANGED << listVars, info, progress, idx >>
     ELSE /\ all_ass_files' = GetAssFilesInDirectory
          /\ total_files' = Len(all_ass_files')
          /\ IF total_files' = 0
             THEN /\ info' = "No .ass files found to process."
                  /\ warning' = "No .ass files found to process."
                  /\ epc' = "returned"
                  /\ UNCHANGED << progress, idx >>
             ELSE /\ info' = "Processing"
                  /\ progress' = 0
                  /\ idx' = 1
                  /\ epc' = "loop"
                  /\ UNCHANGED warning
  /\ UNCHANGED << constVars, disk, tmp, ppc, loopVars, emitted, logVars,
                  raised >>

\* variant: a failing file is skipped and the loop goes on
RaiseSwallowed(kind) ==
  /\ raised' = kind
  /\ IF idx = total_files
     THEN /\ info' = "Cleanup complete!"
          /\ epc' = "done"
          /\ ppc' = "raised"
          /\ UNCHANGED idx
     ELSE /\ idx' = idx + 1
          /\ ppc' = "idle"
          /\ UNCHANGED << info, epc >>
  /\ UNCHANGED << warning, progress >>

\* an exception leaves process_ass_file and, uncaught, execute_cleanup
Raise(kind) ==
  /\ raised' = kind
  /\ epc' = "raised"
  /\ ppc' = "raised"
  /\ UNCHANGED << idx, uiVars >>

\* after process_ass_file returned: step the bar, next file or finish
ProgressStep ==
  /\ epc = "loop" /\ ppc = "returned"
  /\ progress' = progress + 1
  /\ IF idx = total_files
     THEN /\ info' = "Cleanup complete!"
          /\ epc' = "done"
          /\ ppc' = "idle"
          /\ UNCHANGED idx
     ELSE /\ idx' = idx + 1
          /\ ppc' = "idle"
          /\ UNCHANGED << info, epc >>
  /\ UNCHANGED << constVars, listVars, disk, tmp, warning, loopVars, emitted,
                  logVars, raised >>

(* ------------------------- process_ass_file ---------------------------- *)
Call ==
  /\ epc = "loop" /\ ppc = "idle"
  /\ inside_image_block' = FALSE
  /\ lines_in_block' = <<>>
  /\ skip_this_block' = FALSE
  /\ ppc' = "open"
  /\ UNCHANGED << constVars, listVars, disk, tmp, uiVars, callVars, fin_pos,
                  emitted, logVars >>

OpenFiles ==
  /\ ppc = "open"
  /\ disk[CurFile].present
  /\ tmp' = [tmp EXCEPT ![CurFile] = File(<<>>)]
  /\ fin_pos' = 1
  /\ ppc' = "iter"
  /\ UNCHANGED << constVars, listVars, disk, uiVars, callVars,
                  inside_image_block, lines_in_block, skip_this_block,
                  emitted, logVars >>

\* open(ass_file, 'r') raises: the second open is not evaluated
OpenInputFails ==
  /\ ppc = "open"
  /\ Raise("open input")
  /\ UNCHANGED << constVars, listVars, disk, tmp, loopVars, emitted,
                  logVars >>

\* open(temp_file, 'w') raises: fin is closed, nothing is created
OpenTempFails ==
  /\ ppc = "open"
  /\ Raise("open temp")
  /\ UNCHANGED << constVars, listVars, disk, tmp, loopVars, emitted,
                  logVars >>

NextLine == Decode(disk[CurFile].lines[fin_pos])

Iteration ==
  ProcessLine(inside_image_block, lines_in_block, skip_this_block, fin_pos,
              NextLine)

Written(ps) ==
  /\ tmp' = [tmp EXCEPT ![CurFile] =
               File(@.lines \o WrittenLines(disk[CurFile].lines, ps,
                                             os_linesep))]
  /\ emitted' = [emitted EXCEPT ![CurFile] = @ \o ps]

ReadLine ==
  /\ ppc = "iter"
  /\ fin_pos <= Len(disk[CurFile].lines)
  /\ inside_image_block' = Iteration.inside
  /\ lines_in_block' = Iteration.block
  /\ skip_this_block' = Iteration.skip
  /\ Written(Iteration.write)
  /\ fin_pos' = fin_pos + 1
  /\ UNCHANGED << constVars, listVars, disk, uiVars, callVars, ppc, logVars >>

\* reading or decoding the next line raises
ReadFails ==
  /\ ppc = "iter"
  /\ fin_pos <= Len(disk[CurFile].lines)
  /\ Raise("read")
  /\ UNCHANGED << constVars, listVars, disk, tmp, loopVars, emitted,
                  logVars >>

WriteFailsCleaningUp ==
  /\ ppc = "iter"
  /\ fin_pos <= Len(disk[CurFile].lines)
  /\ Iteration.write # <<>>
  /\ tmp' = [tmp EXCEPT ![CurFile] = NoFile]
  /\ Raise("write")
  /\ UNCHANGED << constVars, listVars, disk, loopVars, emitted, logVars >>

\* a fout.write of this iteration raises after k of its writes went through
WriteFails ==
  /\ ppc = "iter"
  /\ fin_pos <= Len(disk[CurFile].lines)
  /\ Iteration.write # <<>>
  /\ \E k \in 0..(Len(Iteration.write) - 1) :
       Written(SubSeq(Iteration.write, 1, k))
  /\ Raise("write")
  /\ UNCHANGED << constVars, listVars, disk, loopVars, logVars >>

\* variant: a block still open at end of input is written out
CloseFilesFlushing ==
  /\ ppc = "iter"
  /\ fin_pos > Len(disk[CurFile].lines)
  /\ Written(IF inside_image_block /\ ~skip_this_block
             THEN lines_in_block ELSE <<>>)
  /\ ppc' = "remove"
  /\ UNCHANGED << constVars, listVars, disk, uiVars, callVars, loopVars,
                  logVars >>

\* end of input: the loop ends and the with statement closes both files
CloseFiles ==
  /\ ppc = "iter"
  /\ fin_pos > Len(disk[CurFile].lines)
  /\ ppc' = "remove"
  /\ UNCHANGED << constVars, listVars, disk, tmp, uiVars, callVars, loopVars,
                  emitted, logVars >>

OsRemove ==
  /\ ppc = "remove"
  /\ disk' = [disk EXCEPT ![CurFile] = NoFile]
  /\ removed' = removed \cup {CurFile}
  /\ ppc' = "rename"
  /\ UNCHANGED << constVars, listVars, tmp, uiVars, callVars, loopVars,
                  emitted, rewritten >>

OsRemoveFails ==
  /\ ppc = "remove"
  /\ Raise("remove")
  /\ UNCHANGED << constVars, listVars, disk, tmp, loopVars, emitted,
                  logVars >>

OsRename ==
  /\ ppc = "rename"
  /\ disk' = [disk EXCEPT ![CurFile] = tmp[CurFile]]
  /\ tmp' = [tmp EXCEPT ![CurFile] = NoFile]
  /\ rewritten' = rewritten \cup {CurFile}
  /\ ppc' = "returned"
  /\ UNCHANGED << constVars, listVars, uiVars, callVars, loopVars, emitted,
                  removed >>

OsRenameFailsCleaningUp ==
  /\ ppc = "rename"
  /\ tmp' = [tmp EXCEPT ![CurFile] = NoFile]
  /\ Raise("rename")
  /\ UNCHANGED << constVars, listVars, disk, loopVars, emitted, logVars >>

OsRenameFails ==
  /\ ppc = "rename"
  /\ Raise("rename")
  /\ UNCHANGED << constVars, listVars, disk, tmp, loopVars, emitted,
                  logVars >>

Next ==
  \/ ExecuteCleanup
  \/ Call
  \/ OpenFiles
  \/ OpenInputFails
  \/ OpenTempFails
  \/ ReadLine
  \/ ReadFails
  \/ WriteFails
  \/ CloseFiles
  \/ OsRemove
  \/ OsRemoveFails
  \/ OsRename
  \/ OsRenameFails
  \/ ProgressStep

Spec == Init /\ [][Next]_vars

SpecBatch == InitBatch /\ [][Next]_vars

SpecEol == InitEol /\ [][Next]_vars

(* ---------------------- vocabulary of the properties ------------------- *)
\* rule 1: the line holds both " specular " and "_specular_file.r"
MatchesRule1(line) ==
  (\E k \in 1..Len(line) : line[k] = " specular ")
  /\ (\E k \in 1..Len(line) : line[k] = "_specular_file.r")

\* a name line referencing _specular_file
NamesSpecularFile(line) ==
  (\E k \in 1..Len(line) : line[k] = "name ")
  /\ (\E k \in 1..Len(line) : line[k] \in {"_specular_file", "_specular_file.r"})

RECURSIVE FirstWord(_)
FirstWord(line) ==
  IF line = <<>> THEN ""
  ELSE IF Head(line) \in {"  ", "\n", "\r\n", "\r"}
       THEN FirstWord(Tail(line)) ELSE Head(line)

OpensImage(line) == FirstWord(line) = "image"
ClosesBrace(line) == FirstWord(line) = "}"

Orig(p) == orig0[p].lines
InOutput(p, k) == \E m \in 1..Len(emitted[p]) : emitted[p][m] = k
OutsideBefore(lines, k) == ~Run(lines, k - 1).inside

EndsLine(line) ==
  line # <<>> /\ line[Len(line)] \in {"\n", "\r\n", "\r"}

\* a line with its terminator, if it has one, replaced by the platform's
AsStored(line) ==
  IF EndsLine(line) THEN [line EXCEPT ![Len(line)] = os_linesep] ELSE line

Verbatim(lines, ps) == [k \in 1..Len(ps) |-> lines[ps[k]]]
Stored(lines, ps) == [k \in 1..Len(ps) |-> AsStored(lines[ps[k]])]

\* the rewritten file holds exactly the emitted lines of the original, each
\* with the platform's terminator
Faithful(p) ==
  disk[p].present /\ disk[p].lines = Stored(Orig(p), emitted[p])

\* lines i..j form a well-formed image block: an image line read outside any
\* block, up to the first later line whose trimmed text starts with }
Block(lines, i, j) ==
  /\ i \in 1..Len(lines) /\ j \in 1..Len(lines) /\ i < j
  /\ OpensImage(lines[i]) /\ OutsideBefore(lines, i)
  /\ ClosesBrace(lines[j])
  /\ \A k \in (i + 1)..(j - 1) : ~ClosesBrace(lines[k])

Positions(i, j) == [k \in 1..(j - i + 1) |-> i + k - 1]

\* positions i..j without the rule-1 lines
NonRule1Positions(lines, i, j) ==
  SelectSeq(Positions(i, j), LAMBDA q : ~MatchesRule1(lines[q]))

\* the positions ps occur in the output of p as one contiguous run that
\* carries the given lines
Reproduced(p, ps, lines) ==
  \E s \in 0..(Len(emitted[p]) - Len(ps)) :
    /\ SubSeq(emitted[p], s + 1, s + Len(ps)) = ps
    /\ SubSeq(disk[p].lines, s + 1, s + Len(ps)) = lines

NoRule1Lines(lines) == \A k \in 1..Len(lines) : ~MatchesRule1(lines[k])

(* ------------------------------ claims --------------------------------- *)
\* C1: no line holding both " specular " and "_specular_file.r" is ever
\* written to the temporary file nor present in the rewritten file, wherever
\* the line stood in the input.
C1_NoRule1LineInOutput ==
  \A p \in DOMAIN disk :
    /\ \A m \in 1..Len(emitted[p]) : ~MatchesRule1(Orig(p)[emitted[p][m]])
    /\ p \in rewritten =>
         /\ Faithful(p)
         /\ \A m \in 1..Len(disk[p].lines) : ~MatchesRule1(disk[p].lines[m])

C1_Witness ==
  \E p \in rewritten :
    /\ Orig(p) = <<L_spec, L_image, L_name_spec_r, L_close>>
    /\ disk[p].lines = <<L_image, L_close>>

C3_AsStated ==
  \A p \in rewritten : \A i, j \in 1..Len(Orig(p)) :
    ( /\ Block(Orig(p), i, j)
      /\ \A k \in i..j : ~NamesSpecularFile(Orig(p)[k]) )
    => Reproduced(p, Positions(i, j), Verbatim(Orig(p), Positions(i, j)))

\* C3 amended: a well-formed block without a name line referencing
\* _specular_file, whose opening and closing lines are not rule-1 lines, is
\* reproduced except for its rule-1 lines and for line terminators: all its
\* other lines are present, contiguous and in their original order, each
\* with its text unmodified and its terminator written as the platform's
\* line separator.
C3_KeptBlockReproduced ==
  \A p \in rewritten : \A i, j \in 1..Len(Orig(p)) :
    ( /\ Block(Orig(p), i, j)
      /\ \A k \in i..j : ~NamesSpecularFile(Orig(p)[k])
      /\ ~MatchesRule1(Orig(p)[i])
      /\ ~MatchesRule1(Orig(p)[j]) )
    => Reproduced(p, NonRule1Positions(Orig(p), i, j),
                  Stored(Orig(p), NonRule1Positions(Orig(p), i, j)))

C3_Witness ==
  \E p \in rewritten :
    /\ os_linesep = LF
    /\ Orig(p) = <<L_image, L_spec, L_name_keep_crlf, L_close>>
    /\ disk[p].lines = <<L_image, L_name_keep, L_close>>

\* C4: filtering the rewritten file again leaves it as it is.
C4_Idempotent ==
  \A p \in rewritten : Filter(disk[p].lines, os_linesep) = disk[p].lines

C4_Witness ==
  \E p \in rewritten :
    /\ os_linesep = CRLF
    /\ Orig(p) = <<L_close, L_image, L_spec, L_image>>
    /\ disk[p].lines = <<L_close_crlf>>

PassesThrough(lines, k) ==
  /\ OutsideBefore(lines, k)
  /\ ~MatchesRule1(lines[k])
  /\ ~OpensImage(lines[k])

InOrder(p) ==
  \A m, n \in 1..Len(emitted[p]) : m < n => emitted[p][m] < emitted[p][n]

C6_UnterminatedDropped ==
  \A p \in rewritten : \A i \in 1..Len(Orig(p)) :
    ( /\ OpensImage(Orig(p)[i]) /\ ~MatchesRule1(Orig(p)[i])
      /\ OutsideBefore(Orig(p), i)
      /\ \A k \in (i + 1)..Len(Orig(p)) :
           ~(ClosesBrace(Orig(p)[k]) /\ ~MatchesRule1(Orig(p)[k])) )
    => /\ \A k \in i..Len(Orig(p)) : ~InOutput(p, k)
       /\ disk[p].present
       /\ disk[p].lines = Filter(SubSeq(Orig(p), 1, i - 1), os_linesep)

C6_Witness ==
  \E p \in rewritten :
    /\ Orig(p) = <<L_name_keep, L_image, L_close_spec, L_name_keep>>
    /\ disk[p].lines = <<L_name_keep>>

\* the file process_ass_file was working on when the exception was raised
Failed(kinds) == epc = "raised" /\ raised \in kinds

OriginalUntouched(p) ==
  disk[p] = orig0[p] /\ p \notin removed /\ p \notin rewritten

\* C7 as stated: when opening, reading or writing fails, the original is
\* still in place and unchanged, remove and rename did not run, and the
\* temporary file is on disk.
C7_AsStated ==
  Failed({"open input", "open temp", "read", "write"}) =>
    OriginalUntouched(CurFile) /\ tmp[CurFile].present

\* C7 amended: os.remove runs only once the whole filtered output is in the
\* temporary file; when opening, reading or writing fails, the original is
\* still in place and unchanged and remove and rename did not run; after a
\* failed read or write the temporary file is left on disk with what was
\* written so far, while after a failed open the run has created no
\* temporary file.
C7_OriginalKeptOnFailure ==
  /\ \A p \in removed :
       emitted[p] = Run(Orig(p), Len(Orig(p))).write
       /\ (p \notin rewritten =>
             tmp[p] = File(Stored(Orig(p), emitted[p])))
  /\ Failed({"open input", "open temp"}) =>
       OriginalUntouched(CurFile) /\ tmp[CurFile] = tmp0[CurFile]
  /\ Failed({"read", "write"}) =>
       /\ OriginalUntouched(CurFile)
       /\ tmp[CurFile] = File(Stored(Orig(CurFile), emitted[CurFile]))

C7_Witness ==
  /\ Failed({"write"})
  /\ Orig(CurFile) = <<L_name_keep, L_image, L_name_keep, L_close>>
  /\ tmp[CurFile] = File(<<L_name_keep, L_image>>)
  /\ disk[CurFile] = orig0[CurFile]

Untouched(p) ==
  /\ OriginalUntouched(p)
  /\ tmp[p] = tmp0[p]
  /\ emitted[p] = <<>>

\* C8: files are handled one at a time in discovery order and the first
\* failure ends the batch: once process_ass_file fails on file k, the files
\* after k are untouched, the files before k stay rewritten, the progress
\* counter is k - 1, the completion message is not shown, and nothing
\* happens any more.
C8_FirstFailureHalts ==
  /\ [](\A p \in DOMAIN disk :
          /\ p > idx => Untouched(p)
          /\ (p < idx \/ epc = "done") =>
               p \in rewritten /\ disk[p] = File(Filter(Orig(p), os_linesep)))
  /\ [](epc = "raised" =>
          /\ progress = idx - 1
          /\ info # "Cleanup complete!")
  /\ [][epc # "raised"]_vars

C8_Witness ==
  /\ epc = "raised"
  /\ idx = 2
  /\ Len(all_ass_files) = 3
  /\ progress = 1
  /\ Orig(1) = <<L_image>> /\ disk[1] = File(<<>>)
  /\ tmp0[3] = File(StaleTmp)

C10_ContentNeverLost ==
  \A p \in DOMAIN disk :
    \/ disk[p] = orig0[p]
    \/ tmp[p] = File(Filter(Orig(p), os_linesep))
    \/ disk[p] = File(Filter(Orig(p), os_linesep))

\* C10: there is a moment at which nothing exists at the original path
C10_Witness ==
  /\ ppc = "rename"
  /\ ~disk[CurFile].present
  /\ Orig(CurFile) = <<L_image, L_name_spec, L_close, L_name_keep>>
  /\ tmp[CurFile] = File(<<L_name_keep>>)

====
